---- MODULE Spec2Model ----
(***************************************************************************)
(* Identity and referral consistency of gorefer: the HTTP handlers of      *)
(* pkg/api, the store of pkg/storage (one SQL statement per step, each     *)
(* statement committed on its own by the connection pool) and the          *)
(* credential hasher of pkg/auth, over the tables of schema.sql.           *)
(***************************************************************************)
EXTENDS Integers, FiniteSets, Sequences, TLC

\* ------------------------------------------------------------------ bounds
MaxCalls == 4      \* requests served in one behaviour
MaxFaults == 1     \* statements that fail on the context deadline / transport
MaxTime == 1       \* the clock runs over 0..MaxTime

\* ------------------------------------------------------- program constants
\* Lifetime of a token, in ticks of the clock (24 hours in the program).
TokenTTL == 1

\* ------------------------------------------------------------------ inputs
Reqs == {"r1", "r2"}
LessSlot(q, r) == q = "r1" /\ r = "r2"
Emails == {"alice@x.com", "bob@x.com"}
Usernames == {"u"}
Passwords == {"pw1"}
Salts == {"s1"}
CodeStrings == {"REF1", "REF2"}
Times == 0..MaxTime
UserIDs == {1, 2}
\* The signing secret of the server and a key the server does not hold.
JWTSecret == "JWT_SECRET"
Keys == {JWTSecret, "k2"}
\* Declared signing methods: three of the HMAC family, one that is not.
SigningMethodHMAC == {"HS256", "HS384", "HS512"}
Algs == {"HS256", "HS384", "RS256"}

VARIABLES
    users,             \* table users: rows [id, username, email, password]
    users_id_seq,      \* last value of the SERIAL sequence of users.id
    referral_codes,    \* table referral_codes: rows [user_id, code, expires_at]
    referral_links,    \* table referral_links: rows [referrer_id, referee_id]
    now,               \* NOW() of the store
    req,               \* per request slot: handler, position, arguments, locals
    resp,              \* the response written last: handler, error, status
    calls,             \* requests accepted so far
    faults             \* statements failed so far on deadline / transport

vars == <<users, users_id_seq, referral_codes, referral_links, now, req, resp, calls, faults>>

\* ------------------------------------------------------- credential hasher
\* A string is a tuple of tokens: a plaintext p is <<p>>, a bcrypt digest is
\* <<"$2a$", salt, p>> (version prefix, salt, and the digest of p under salt).
Plain(p) == <<p>>

HashPassword(password, salt) == <<"$2a$", salt, password[1]>>

\* nil when hash is a well-formed digest of password; bcrypt's errors otherwise.
CheckPasswordHash(password, hash) ==
    IF Len(hash) # 3 THEN "ErrHashTooShort"
    ELSE IF hash[1] # "$2a$" THEN "InvalidHashPrefixError"
    ELSE IF hash[3] # password[1] THEN "ErrMismatchedHashAndPassword"
    ELSE "nil"

\* ------------------------------------------------------------------ tokens
\* A token string is a record of what its three segments encode: the declared
\* method, the key its signature was made with, and the claims; Malformed is a
\* string that does not split into three segments.
Malformed == [alg |-> "", key |-> "", user_id |-> 0, username |-> "",
              subject |-> "", exp |-> 0, iat |-> 0]

\* GenerateToken at time t: HS256 under JWTSecret, expiring TokenTTL later.
GenerateMutantNoUsername(userID, username, t) ==
    [alg |-> "HS256", key |-> JWTSecret, user_id |-> userID,
     username |-> "", subject |-> username,
     exp |-> t + TokenTTL, iat |-> t]

GenerateToken(userID, username, t) ==
    [alg |-> "HS256", key |-> JWTSecret, user_id |-> userID,
     username |-> username, subject |-> username,
     exp |-> t + TokenTTL, iat |-> t]

\* The key function ValidateToken hands to the parser: the secret for a method
\* of the HMAC family, an error for any other method.
KeyFunc(tokenString) ==
    IF tokenString.alg \in SigningMethodHMAC
    THEN [key |-> JWTSecret, err |-> "nil"]
    ELSE [key |-> "", err |-> "nedopustimyi metod podpisi"]

\* An error value is <<type, text>>; NoError is nil. ErrSignatureInvalid is the
\* library's sentinel for a signature that does not verify; the parser returns
\* every error as a *ValidationError around the cause, with the cause's text.
NoError == <<>>
ErrSignatureInvalid == <<"errorString", "signature is invalid">>
ValidationError(inner) == <<"ValidationError", inner>>

\* jwt.ParseWithClaims at time t: split the segments, ask the key function for
\* the key, validate the standard claims (exp and iat, a zero claim counting as
\* absent; t = exp is still valid), then verify the signature under the
\* declared method; the signature error replaces the claims error as the cause.
ParseWithClaims(tokenString, t) ==
    IF tokenString = Malformed
    THEN ValidationError("token contains an invalid number of segments")
    ELSE IF KeyFunc(tokenString).err # "nil"
    THEN ValidationError(KeyFunc(tokenString).err)
    ELSE IF tokenString.key # KeyFunc(tokenString).key
    THEN ValidationError(ErrSignatureInvalid[2])
    ELSE IF tokenString.exp # 0 /\ t > tokenString.exp
    THEN ValidationError("token is expired")
    ELSE IF tokenString.iat # 0 /\ t < tokenString.iat
    THEN ValidationError("Token used before issued")
    ELSE NoError

\* ValidateToken at time t: the username of the claims and no error, or the
\* error. The program's messages are in Russian and are transliterated here:
\* "nedeistvitelnaya podpis tokena" is its invalid-signature error, "oshibka
\* razbora tokena" its token-parse error, "token istek" its token-expired error.
ValidateToken(tokenString, t) ==
    LET err == ParseWithClaims(tokenString, t)
    IN  IF err # NoError
        THEN IF err = ErrSignatureInvalid
             THEN [username |-> "", err |-> <<"nedeistvitelnaya podpis tokena">>]
             ELSE [username |-> "",
                   err |-> <<"oshibka razbora tokena: ", err[2]>>]
        ELSE IF tokenString.exp < t
        THEN [username |-> "", err |-> <<"token istek">>]
        ELSE [username |-> tokenString.username, err |-> NoError]

\* Tokens a client may present: tokens of the server with an expiry within
\* reach of the clock, the last of them re-signed with a key the server does not
\* hold, or declaring another method (of the HMAC family, or outside it), and
\* a string that is no token.
TokenExps == 1..(MaxTime + TokenTTL)
ServerTokens ==
    {[alg |-> "HS256", key |-> JWTSecret, user_id |-> 1, username |-> "alice",
      subject |-> "alice", exp |-> e, iat |-> 0] : e \in TokenExps}
LastToken == CHOOSE tok \in ServerTokens : tok.exp = MaxTime + TokenTTL
Tokens ==
    {Malformed} \cup ServerTokens
    \cup {[LastToken EXCEPT !.key = k] : k \in Keys}
    \cup {[LastToken EXCEPT !.alg = a] : a \in Algs}

\* Authorization headers: none, one shorter than "Bearer ", and "Bearer " + token.
Headers == {<<>>, <<"Bearer">>} \cup {<<"Bearer ", tok>> : tok \in Tokens}

\* TokenAuthMiddleware at time t: refuses an empty header and one shorter than
\* "Bearer ", cuts the first len("Bearer ") characters off whatever they are,
\* and validates the rest.
TokenAuthMiddlewareMutantNoValidate(header, t) ==
    IF Len(header) < 2
    THEN [ok |-> FALSE, body |-> <<"Token ne predostavlen">>, username |-> ""]
    ELSE [ok |-> TRUE, body |-> <<>>, username |-> header[2].username]

TokenAuthMiddleware(header, t) ==
    IF Len(header) < 2
    THEN [ok |-> FALSE, body |-> <<"Token ne predostavlen">>, username |-> ""]
    ELSE LET res == ValidateToken(header[2], t)
         IN  IF res.err # NoError
             THEN [ok |-> FALSE, body |-> <<"Nedeistvitelnyi token">>,
                   username |-> ""]
             ELSE [ok |-> TRUE, body |-> <<>>, username |-> res.username]

\* ------------------------------------------------------------------ store
NoUser == [username |-> "", email |-> "", password |-> <<>>]

\* A statement given fault = TRUE returns the context / transport error and
\* changes nothing.
FaultChoices == IF faults < MaxFaults THEN BOOLEAN ELSE {FALSE}

\* INSERT INTO users ... RETURNING id. The sequence advances before the UNIQUE
\* index on email is checked.
CreateUserMutantNoUnique(user, fault) ==
    IF fault
    THEN [err |-> "ctx", id |-> 0, users |-> users, seq |-> users_id_seq]
    ELSE [err |-> "nil", id |-> users_id_seq + 1,
          users |-> users \cup {[id |-> users_id_seq + 1,
                                 username |-> user.username,
                                 email |-> user.email,
                                 password |-> user.password]},
          seq |-> users_id_seq + 1]

CreateUser(user, fault) ==
    IF fault
    THEN [err |-> "ctx", id |-> 0, users |-> users, seq |-> users_id_seq]
    ELSE IF \E u \in users : u.email = user.email
    THEN [err |-> "unique_violation", id |-> 0, users |-> users,
          seq |-> users_id_seq + 1]
    ELSE [err |-> "nil", id |-> users_id_seq + 1,
          users |-> users \cup {[id |-> users_id_seq + 1,
                                 username |-> user.username,
                                 email |-> user.email,
                                 password |-> user.password]},
          seq |-> users_id_seq + 1]

\* SELECT id, username, email, password FROM users WHERE email = $1
GetUserByEmail(email, fault) ==
    IF fault THEN [err |-> "ctx", rows |-> {}]
    ELSE LET rows == {u \in users : u.email = email}
         IN  [err |-> IF rows = {} THEN "ErrNoRows" ELSE "nil", rows |-> rows]

\* DELETE FROM referral_codes WHERE user_id = $1
DeleteMutantAllOwners(userID, fault) ==
    IF fault
    THEN [err |-> "ctx", deleted |-> {}, codes |-> referral_codes]
    ELSE [err |-> "nil", deleted |-> referral_codes, codes |-> {}]

DeleteReferralCode(userID, fault) ==
    IF fault
    THEN [err |-> "ctx", deleted |-> {}, codes |-> referral_codes]
    ELSE LET rows == {c \in referral_codes : c.user_id = userID}
         IN  [err |-> "nil", deleted |-> rows, codes |-> referral_codes \ rows]

\* INSERT INTO referral_codes (user_id, code, expires_at): the UNIQUE index on
\* code is checked as the row is inserted, the foreign key on user_id at the
\* end of the statement.
InsertCodeMutantNoUnique(userID, code, expiresAt, fault) ==
    IF fault THEN [err |-> "ctx", codes |-> referral_codes]
    ELSE IF \A u \in users : u.id # userID
    THEN [err |-> "fk_violation", codes |-> referral_codes]
    ELSE [err |-> "nil",
          codes |-> referral_codes \cup
                    {[user_id |-> userID, code |-> code, expires_at |-> expiresAt]}]

InsertCodeMutantNoForeignKey(userID, code, expiresAt, fault) ==
    IF fault THEN [err |-> "ctx", codes |-> referral_codes]
    ELSE IF \E c \in referral_codes : c.code = code
    THEN [err |-> "unique_violation", codes |-> referral_codes]
    ELSE [err |-> "nil",
          codes |-> referral_codes \cup
                    {[user_id |-> userID, code |-> code, expires_at |-> expiresAt]}]

InsertReferralCode(userID, code, expiresAt, fault) ==
    IF fault THEN [err |-> "ctx", codes |-> referral_codes]
    ELSE IF \E c \in referral_codes : c.code = code
    THEN [err |-> "unique_violation", codes |-> referral_codes]
    ELSE IF \A u \in users : u.id # userID
    THEN [err |-> "fk_violation", codes |-> referral_codes]
    ELSE [err |-> "nil",
          codes |-> referral_codes \cup
                    {[user_id |-> userID, code |-> code, expires_at |-> expiresAt]}]

\* SELECT rc.* FROM referral_codes rc JOIN users u ON rc.user_id = u.id
\* WHERE u.email = $1
CodesByEmail(email) ==
    {c \in referral_codes : \E u \in users : u.id = c.user_id /\ u.email = email}

\* DB.GetReferralCodeByEmail: ErrNoRows becomes the not-found error.
GetReferralCodeByEmail(email, fault) ==
    IF fault THEN [err |-> "ctx", rows |-> {}]
    ELSE [err |-> IF CodesByEmail(email) = {} THEN "not_found" ELSE "nil",
          rows |-> CodesByEmail(email)]

\* SELECT user_id FROM referral_codes WHERE code = $1 AND expires_at > NOW()
SelectMutantAtExpiry(referralCode) ==
    {c \in referral_codes : c.code = referralCode /\ c.expires_at >= now}

SelectMutantIgnoreExpiry(referralCode) ==
    {c \in referral_codes : c.code = referralCode}

SelectReferrer(referralCode) ==
    {c \in referral_codes : c.code = referralCode /\ c.expires_at > now}

\* INSERT INTO referral_links (referrer_id, referee_id) VALUES ($1, $2)
InsertLinkMutantSwapped(referrerID, userID, fault) ==
    IF fault THEN [err |-> "ctx", links |-> referral_links]
    ELSE [err |-> "nil",
          links |-> referral_links \cup
                    {[referrer_id |-> userID, referee_id |-> referrerID]}]

InsertReferralLink(referrerID, userID, fault) ==
    IF fault THEN [err |-> "ctx", links |-> referral_links]
    ELSE IF (\A u \in users : u.id # referrerID)
            \/ (\A v \in users : v.id # userID)
    THEN [err |-> "fk_violation", links |-> referral_links]
    ELSE [err |-> "nil",
          links |-> referral_links \cup
                    {[referrer_id |-> referrerID, referee_id |-> userID]}]

\* SELECT u.id, u.username, u.email FROM referral_links rl JOIN users u
\* ON rl.referee_id = u.id WHERE rl.referrer_id = $1
GetReferralsMutantSwapped(referrerID, fault) ==
    IF fault THEN [err |-> "ctx", rows |-> {}]
    ELSE [err |-> "nil",
          rows |-> {u \in users : \E l \in referral_links :
                       l.referee_id = referrerID /\ l.referrer_id = u.id}]

GetReferralsByReferrerID(referrerID, fault) ==
    IF fault THEN [err |-> "ctx", rows |-> {}]
    ELSE [err |-> "nil",
          rows |-> {u \in users : \E l \in referral_links :
                       l.referrer_id = referrerID /\ l.referee_id = u.id}]

\* ---------------------------------------------------------------- requests
NoResp == [op |-> "", err |-> "nil", status |-> 0, call |-> <<>>, body |-> <<>>]

Idle == [op |-> "idle", pc |-> "idle", user |-> NoUser, code |-> "",
         userID |-> 0, expiresAt |-> 0, referrerID |-> 0, deleted |-> {}]

Init ==
    /\ users = {}
    /\ users_id_seq = 0
    /\ referral_codes = {}
    /\ referral_links = {}
    /\ now = 0
    /\ req = [r \in Reqs |-> Idle]
    /\ resp = NoResp
    /\ calls = 0
    /\ faults = 0

\* A slot is free until a request is accepted into it and again once its
\* handler has written the response.
Free(r) == req[r].pc = "idle"

\* A request is accepted into the first free slot, while the budget lasts.
Accept(r) ==
    /\ Free(r)
    /\ \A q \in Reqs : Free(q) => ~ LessSlot(q, r)
    /\ calls < MaxCalls
    /\ calls' = calls + 1

Count(fault) == faults' = IF fault THEN faults + 1 ELSE faults

\* The text each handler puts before the error of its store call.
ErrorPrefix(op) ==
    CASE op = "RegisterUser" -> "failed to create user: "
      [] op = "RegisterWithoutCode" -> "failed to create user: "
      [] op = "LoginUser" -> "failed to retrieve user: "
      [] op = "CreateReferralCode" -> "failed to create referral code: "
      [] op = "DeleteReferralCode" -> "failed to delete referral code: "
      [] op = "GetReferralCodeByEmail" -> "failed to retrieve referral code: "
      [] op = "RegisterWithReferralCode" -> "failed to register with referral code: "
      [] op = "GetReferralsByReferrerID" -> "failed to retrieve referrals: "

\* API.writeError(w, errors.New(prefix + err.Error()), code): the JSON body
\* {"error": prefix + err.Error()}; no body is written on success.
WriteError(prefix, err) ==
    IF err = "nil" THEN <<>> ELSE <<"error", prefix, err>>

\* The handler of slot r writes its response and returns: the slot is free.
\* call is what the store call was given and what it had done.
DoneWith(r, op, err, status, call, body) ==
    /\ req' = [req EXCEPT ![r] = Idle]
    /\ resp' = [op |-> op, err |-> err, status |-> status, call |-> call,
                body |-> body]

Done(r, op, err, status, call) ==
    DoneWith(r, op, err, status, call, WriteError(ErrorPrefix(op), err))

\* The handler of slot r goes on to its next statement.
Goto(r, rec) ==
    /\ req' = [req EXCEPT ![r] = rec]
    /\ resp' = resp

StatusOf(err, ok, failed) == IF err = "nil" THEN ok ELSE failed

Inputs == [username : Usernames, email : Emails, password : {Plain(p) : p \in Passwords}]

\* API.RegisterUser: hash the password, CreateUser, 201 or 500.
RegisterUserMutantRetry(r, user) ==
    \E salt \in Salts, fault \in FaultChoices :
        LET hashed == [user EXCEPT !.password = HashPassword(user.password, salt)]
            res == CreateUser(hashed, fault)
        IN  /\ Accept(r)
            /\ Count(fault)
            /\ users' = res.users
            /\ users_id_seq' = IF res.err = "unique_violation"
                               THEN res.seq + 1 ELSE res.seq
            /\ Done(r, "RegisterUser", res.err, StatusOf(res.err, 201, 500), <<>>)
            /\ UNCHANGED <<referral_codes, referral_links, now>>

RegisterUser(r, user) ==
    \E salt \in Salts, fault \in FaultChoices :
        LET hashed == [user EXCEPT !.password = HashPassword(user.password, salt)]
            res == CreateUser(hashed, fault)
        IN  /\ Accept(r)
            /\ Count(fault)
            /\ users' = res.users
            /\ users_id_seq' = res.seq
            /\ Done(r, "RegisterUser", res.err, StatusOf(res.err, 201, 500), <<>>)
            /\ UNCHANGED <<referral_codes, referral_links, now>>

\* API.LoginUser: GetUserByEmail, CheckPasswordHash, GenerateToken; 200 with
\* the token, or 401 with the store's error or "invalid login credentials".
LoginUser(r, email, password) ==
    \E fault \in FaultChoices :
        LET res == GetUserByEmail(email, fault)
            existingUser == CHOOSE u \in res.rows : TRUE
            err == IF res.err # "nil" THEN res.err
                   ELSE CheckPasswordHash(password, existingUser.password)
            body == IF res.err # "nil"
                    THEN WriteError(ErrorPrefix("LoginUser"), res.err)
                    ELSE IF err # "nil"
                    THEN <<"error", "invalid login credentials">>
                    ELSE <<"token", GenerateToken(existingUser.id,
                                                  existingUser.username, now)>>
        IN  /\ Accept(r)
            /\ Count(fault)
            /\ DoneWith(r, "LoginUser", err, StatusOf(err, 200, 401), <<>>, body)
            /\ UNCHANGED <<users, users_id_seq, referral_codes, referral_links, now>>

\* API.CreateReferralCode -> DB.CreateReferralCode, first statement: the DELETE
\* of DB.DeleteReferralCode. Its error ends the call.
HandleCreateReferralCode(r, userID, code, expiresAt) ==
    \E fault \in FaultChoices :
        LET res == DeleteReferralCode(userID, fault)
        IN  /\ Accept(r)
            /\ Count(fault)
            /\ referral_codes' = res.codes
            /\ IF res.err # "nil"
               THEN Done(r, "CreateReferralCode", res.err, 500, <<userID, code, {}>>)
               ELSE Goto(r, [Idle EXCEPT !.op = "CreateReferralCode",
                                 !.pc = "insert", !.userID = userID,
                                 !.code = code, !.expiresAt = expiresAt,
                                 !.deleted = res.deleted])
            /\ UNCHANGED <<users, users_id_seq, referral_links, now>>

\* DB.CreateReferralCode, second statement: the INSERT; 201 or 500.
CreateReferralCodeInsert(r) ==
    \E fault \in FaultChoices :
        LET res == InsertReferralCode(req[r].userID, req[r].code,
                                      req[r].expiresAt, fault)
        IN  /\ req[r].op = "CreateReferralCode"
            /\ req[r].pc = "insert"
            /\ Count(fault)
            /\ referral_codes' = res.codes
            /\ Done(r, "CreateReferralCode", res.err, StatusOf(res.err, 201, 500),
                    <<req[r].userID, req[r].code, {d.code : d \in req[r].deleted}>>)
            /\ UNCHANGED <<users, users_id_seq, referral_links, now, calls>>

\* API.DeleteReferralCode -> DB.DeleteReferralCode; 204 or 500.
HandleDeleteMutantCascade(r, userID) ==
    \E fault \in FaultChoices :
        LET res == DeleteReferralCode(userID, fault)
        IN  /\ Accept(r)
            /\ Count(fault)
            /\ referral_codes' = res.codes
            /\ referral_links' = {l \in referral_links : l.referrer_id # userID}
            /\ Done(r, "DeleteReferralCode", res.err, StatusOf(res.err, 204, 500), <<>>)
            /\ UNCHANGED <<users, users_id_seq, now>>

HandleDeleteReferralCode(r, userID) ==
    \E fault \in FaultChoices :
        LET res == DeleteReferralCode(userID, fault)
        IN  /\ Accept(r)
            /\ Count(fault)
            /\ referral_codes' = res.codes
            /\ Done(r, "DeleteReferralCode", res.err, StatusOf(res.err, 204, 500), <<>>)
            /\ UNCHANGED <<users, users_id_seq, referral_links, now>>

\* API.GetReferralCodeByEmail -> DB.GetReferralCodeByEmail: QueryRow scans the
\* first row of the join, whichever the store returns first; 200 or 404.
HandleGetReferralCodeByEmail(r, email) ==
    \E fault \in FaultChoices :
        LET res == GetReferralCodeByEmail(email, fault)
        IN  /\ Accept(r)
            /\ Count(fault)
            /\ Done(r, "GetReferralCodeByEmail", res.err, StatusOf(res.err, 200, 404),
                    <<>>)
            /\ UNCHANGED <<users, users_id_seq, referral_codes,
                           referral_links, now>>

\* API.RegisterWithReferralCode with an empty referral_code: hash the password,
\* CreateUser; 201 or 500.
RegisterWithoutCode(r, user) ==
    \E salt \in Salts, fault \in FaultChoices :
        LET hashed == [user EXCEPT !.password = HashPassword(user.password, salt)]
            res == CreateUser(hashed, fault)
        IN  /\ Accept(r)
            /\ Count(fault)
            /\ users' = res.users
            /\ users_id_seq' = res.seq
            /\ DoneWith(r, "RegisterWithReferralCode", res.err,
                        StatusOf(res.err, 201, 500), <<>>,
                        WriteError(ErrorPrefix("RegisterWithoutCode"), res.err))
            /\ UNCHANGED <<referral_codes, referral_links, now>>

\* API.RegisterWithReferralCode with a referral_code -> DB.RegisterWithReferralCode
\* with request.User as decoded, first statement: the SELECT of the referrer.
HandleRegisterWithReferralCode(r, referralCode, user) ==
    \E fault \in FaultChoices :
        LET rows == IF fault THEN {} ELSE SelectReferrer(referralCode)
            err == IF fault THEN "ctx"
                   ELSE IF rows = {} THEN "ErrNoRows" ELSE "nil"
        IN  /\ Accept(r)
            /\ Count(fault)
            /\ IF err # "nil"
               THEN Done(r, "RegisterWithReferralCode", err, 500, <<referralCode>>)
               ELSE Goto(r, [Idle EXCEPT !.op = "RegisterWithReferralCode",
                                 !.pc = "createUser", !.code = referralCode,
                                 !.user = user,
                                 !.referrerID = (CHOOSE c \in rows : TRUE).user_id])
            /\ UNCHANGED <<users, users_id_seq, referral_codes, referral_links, now>>

\* DB.RegisterWithReferralCode, second statement: CreateUser.
RegisterCreateUser(r) ==
    \E fault \in FaultChoices :
        LET res == CreateUser(req[r].user, fault)
        IN  /\ req[r].op = "RegisterWithReferralCode"
            /\ req[r].pc = "createUser"
            /\ Count(fault)
            /\ users' = res.users
            /\ users_id_seq' = res.seq
            /\ IF res.err # "nil"
               THEN Done(r, "RegisterWithReferralCode", res.err, 500,
                         <<req[r].code>>)
               ELSE Goto(r, [req[r] EXCEPT !.pc = "insertLink", !.userID = res.id])
            /\ UNCHANGED <<referral_codes, referral_links, now, calls>>

\* DB.RegisterWithReferralCode, third statement: the INSERT of the link; 201 or 500.
RegisterInsertLinkMutantConsume(r) ==
    \E fault \in FaultChoices :
        LET res == InsertReferralLink(req[r].referrerID, req[r].userID, fault)
        IN  /\ req[r].op = "RegisterWithReferralCode"
            /\ req[r].pc = "insertLink"
            /\ Count(fault)
            /\ referral_links' = res.links
            /\ referral_codes' = IF res.err = "nil"
                                 THEN {c \in referral_codes : c.code # req[r].code}
                                 ELSE referral_codes
            /\ Done(r, "RegisterWithReferralCode", res.err,
                    StatusOf(res.err, 201, 500),
                    <<req[r].code>>)
            /\ UNCHANGED <<users, users_id_seq, now, calls>>

RegisterInsertLink(r) ==
    \E fault \in FaultChoices :
        LET res == InsertReferralLink(req[r].referrerID, req[r].userID, fault)
        IN  /\ req[r].op = "RegisterWithReferralCode"
            /\ req[r].pc = "insertLink"
            /\ Count(fault)
            /\ referral_links' = res.links
            /\ Done(r, "RegisterWithReferralCode", res.err,
                    StatusOf(res.err, 201, 500),
                    <<req[r].code>>)
            /\ UNCHANGED <<users, users_id_seq, referral_codes, now, calls>>

\* API.GetReferralsByReferrerID -> DB.GetReferralsByReferrerID; 200 with the
\* referees, or 500.
HandleGetReferralsByReferrerID(r, referrerID) ==
    \E fault \in FaultChoices :
        LET res == GetReferralsByReferrerID(referrerID, fault)
        IN  /\ Accept(r)
            /\ Count(fault)
            /\ Done(r, "GetReferralsByReferrerID", res.err,
                    StatusOf(res.err, 200, 500),
                    <<referrerID, {u.id : u \in res.rows}>>)
            /\ UNCHANGED <<users, users_id_seq, referral_codes,
                           referral_links, now>>

\* TokenAuthMiddleware refusing the request of slot r: http.Error with 401; the
\* next handler is not called.
Unauthorized(r, body) ==
    /\ Accept(r)
    /\ DoneWith(r, "TokenAuthMiddleware", "unauthorized", 401, <<>>, body)
    /\ UNCHANGED <<users, users_id_seq, referral_codes, referral_links, now,
                   faults>>

\* The routes under /p: TokenAuthMiddleware, then the handler.
ProtectedCreateReferralCode(r, header, userID, code, expiresAt) ==
    IF TokenAuthMiddleware(header, now).ok
    THEN HandleCreateReferralCode(r, userID, code, expiresAt)
    ELSE Unauthorized(r, TokenAuthMiddleware(header, now).body)

ProtectedDeleteReferralCode(r, header, userID) ==
    IF TokenAuthMiddleware(header, now).ok
    THEN HandleDeleteReferralCode(r, userID)
    ELSE Unauthorized(r, TokenAuthMiddleware(header, now).body)

ProtectedGetReferralCodeByEmail(r, header, email) ==
    IF TokenAuthMiddleware(header, now).ok
    THEN HandleGetReferralCodeByEmail(r, email)
    ELSE Unauthorized(r, TokenAuthMiddleware(header, now).body)

ProtectedGetReferralsByReferrerID(r, header, referrerID) ==
    IF TokenAuthMiddleware(header, now).ok
    THEN HandleGetReferralsByReferrerID(r, referrerID)
    ELSE Unauthorized(r, TokenAuthMiddleware(header, now).body)

Tick ==
    /\ now < MaxTime
    /\ now' = now + 1
    /\ UNCHANGED <<users, users_id_seq, referral_codes, referral_links, req, resp, calls, faults>>

Next ==
    \/ \E r \in Reqs, user \in Inputs : RegisterUser(r, user)
    \/ \E r \in Reqs, email \in Emails, p \in Passwords :
           LoginUser(r, email, Plain(p))
    \/ \E r \in Reqs, userID \in UserIDs, code \in CodeStrings, expiresAt \in Times :
           HandleCreateReferralCode(r, userID, code, expiresAt)
    \/ \E r \in Reqs : CreateReferralCodeInsert(r)
    \/ \E r \in Reqs, userID \in UserIDs : HandleDeleteReferralCode(r, userID)
    \/ \E r \in Reqs, email \in Emails : HandleGetReferralCodeByEmail(r, email)
    \/ \E r \in Reqs, user \in Inputs : RegisterWithoutCode(r, user)
    \/ \E r \in Reqs, code \in CodeStrings, user \in Inputs :
           HandleRegisterWithReferralCode(r, code, user)
    \/ \E r \in Reqs : RegisterCreateUser(r)
    \/ \E r \in Reqs : RegisterInsertLink(r)
    \/ \E r \in Reqs, referrerID \in UserIDs :
           HandleGetReferralsByReferrerID(r, referrerID)
    \/ Tick

Spec == Init /\ [][Next]_vars

\* ------------------------------------------------- the routes behind the token
\* Next serves the requests under /p whose token the middleware accepted. The
\* second specification puts the middleware in front of them and lets a client
\* present any header; its clock runs until the tokens of Tokens can expire.
AuthInputs ==
    {[username |-> "alice", email |-> "alice@x.com", password |-> Plain("pw1")],
     [username |-> "bob", email |-> "bob@x.com", password |-> Plain("pw1")]}

TickAuth ==
    /\ now < MaxTime + TokenTTL
    /\ now' = now + 1
    /\ UNCHANGED <<users, users_id_seq, referral_codes, referral_links, req, resp, calls, faults>>

NextAuth ==
    \/ \E r \in Reqs, user \in AuthInputs : RegisterUser(r, user)
    \/ \E r \in Reqs, email \in Emails, p \in Passwords :
           LoginUser(r, email, Plain(p))
    \/ \E r \in Reqs, header \in Headers, userID \in UserIDs :
           ProtectedCreateReferralCode(r, header, userID, "REF1", MaxTime)
    \/ \E r \in Reqs : CreateReferralCodeInsert(r)
    \/ \E r \in Reqs, header \in Headers, userID \in UserIDs :
           ProtectedDeleteReferralCode(r, header, userID)
    \/ \E r \in Reqs, header \in Headers, email \in Emails :
           ProtectedGetReferralCodeByEmail(r, header, email)
    \/ \E r \in Reqs, header \in Headers, referrerID \in UserIDs :
           ProtectedGetReferralsByReferrerID(r, header, referrerID)
    \/ TickAuth

SpecAuth == Init /\ [][NextAuth]_vars

\* ------------------------------------------------------ one request at a time
\* The third specification serves the requests one after the other, with wider
\* inputs: payloads that do not decode, an expiry before the first instant of
\* the clock, and more passwords. A password is the sequence of its 72-byte
\* blocks, the unit bcrypt reads: "B72" is a full block, so <<"B72", "x">> and
\* <<"B72", "y">> are two passwords of more than 72 bytes with the same first
\* 72 bytes.
PastTimes == (0 - 1)..MaxTime
SeqPasswords == {<<"pw1">>, <<"B72", "x">>, <<"B72", "y">>}
SeqInputs == [username : Usernames, email : Emails, password : SeqPasswords]
Decoders == {"RegisterUser", "LoginUser", "CreateReferralCode",
             "DeleteReferralCode", "RegisterWithReferralCode"}

\* No other request is in flight.
Alone(r) == \A q \in Reqs \ {r} : Free(q)

\* A handler whose payload fails to decode: 400 "invalid request payload",
\* before any call of the store.
InvalidPayload(r, op) ==
    /\ Accept(r)
    /\ DoneWith(r, op, "invalid request payload", 400, <<>>,
                <<"error", "invalid request payload">>)
    /\ UNCHANGED <<users, users_id_seq, referral_codes, referral_links, now,
                   faults>>

NextSeq ==
    \/ \E r \in Reqs, op \in Decoders : Alone(r) /\ InvalidPayload(r, op)
    \/ \E r \in Reqs, user \in SeqInputs : Alone(r) /\ RegisterUser(r, user)
    \/ \E r \in Reqs, email \in Emails, password \in SeqPasswords :
           Alone(r) /\ LoginUser(r, email, password)
    \/ \E r \in Reqs, userID \in UserIDs, expiresAt \in PastTimes :
           Alone(r) /\ HandleCreateReferralCode(r, userID, "REF1", expiresAt)
    \/ \E r \in Reqs : CreateReferralCodeInsert(r)
    \/ \E r \in Reqs, user \in SeqInputs : Alone(r) /\ RegisterWithoutCode(r, user)
    \/ \E r \in Reqs, user \in SeqInputs :
           Alone(r) /\ HandleRegisterWithReferralCode(r, "REF1", user)
    \/ \E r \in Reqs : RegisterCreateUser(r)
    \/ \E r \in Reqs : RegisterInsertLink(r)
    \/ Tick

SpecSeq == Init /\ [][NextSeq]_vars

\* ------------------------------------------------- goroutines and channels
\* The fourth specification opens a handler up: after decoding, the handler
\* makes its unbuffered channels, starts a worker goroutine that runs the store
\* call and sends its outcome, and waits to receive. A slot in flight carries
\* the worker's position (pc: the statement it is about to run, "send" while
\* it is blocked on its send, "exit" once it has returned) and the handler's
\* (handler: "recv" while it waits, "got" once it holds the value).
ChanOps == {"RegisterUser", "LoginUser", "CreateReferralCode",
            "DeleteReferralCode", "GetReferralCodeByEmail",
            "RegisterWithoutCode", "RegisterWithReferralCode",
            "GetReferralsByReferrerID"}

\* The channels the handler of op receives from: a select over resultChan and
\* errorChan in the three handlers that return data, resultChan alone in the
\* others.
ListensMutantResultOnly(op) == {"resultChan"}

Listens(op) ==
    IF op \in {"LoginUser", "GetReferralCodeByEmail", "GetReferralsByReferrerID"}
    THEN {"resultChan", "errorChan"}
    ELSE {"resultChan"}

\* The channel the worker of op sends an outcome on: errorChan for an error of
\* a handler that has one, resultChan for everything else.
SendsOn(op, err) ==
    IF err # "nil" /\ op \in {"LoginUser", "GetReferralCodeByEmail",
                              "GetReferralsByReferrerID"}
    THEN "errorChan"
    ELSE "resultChan"

\* Status written on success and on failure.
OkStatus(op) ==
    CASE op = "LoginUser" -> 200
      [] op = "DeleteReferralCode" -> 204
      [] op = "GetReferralCodeByEmail" -> 200
      [] op = "GetReferralsByReferrerID" -> 200
      [] OTHER -> 201

FailStatus(op) ==
    CASE op = "LoginUser" -> 401
      [] op = "GetReferralCodeByEmail" -> 404
      [] OTHER -> 500

\* The handler of slot r has decoded its request, made its channels and
\* started its worker; it waits to receive.
StartWorker(r, op, user, userID) ==
    /\ Accept(r)
    /\ req' = [req EXCEPT ![r] =
                 [op |-> op, pc |-> "call", user |-> user, code |-> "REF1",
                  userID |-> userID, expiresAt |-> MaxTime, referrerID |-> 0,
                  deleted |-> {}, handler |-> "recv", chan |-> "",
                  err |-> "nil", rows |-> {}]]
    /\ UNCHANGED <<users, users_id_seq, referral_codes, referral_links, now,
                   resp, faults>>

\* The worker of slot r has its outcome and blocks on the send.
SendOutcome(r, err, rows) ==
    req' = [req EXCEPT ![r].pc = "send",
                       ![r].chan = SendsOn(req[r].op, err),
                       ![r].err = err,
                       ![r].rows = rows]

\* The worker of slot r is about to run the statement pc of the store call of
\* one of ops.
WorkerAt(r, ops, pc) ==
    /\ req[r].pc = pc
    /\ req[r].op \in ops

\* Worker of RegisterUser and of RegisterWithReferralCode without a code:
\* HashPassword, CreateUser, send the error on resultChan.
WorkerRegisterUser(r) ==
    \E salt \in Salts, fault \in FaultChoices :
        LET hashed == [req[r].user EXCEPT
                          !.password = HashPassword(req[r].user.password, salt)]
            res == CreateUser(hashed, fault)
        IN  /\ WorkerAt(r, {"RegisterUser", "RegisterWithoutCode"}, "call")
            /\ Count(fault)
            /\ users' = res.users
            /\ users_id_seq' = res.seq
            /\ SendOutcome(r, res.err, {})
            /\ UNCHANGED <<referral_codes, referral_links, now, resp, calls>>

\* Worker of LoginUser: GetUserByEmail, then the error on errorChan and return,
\* or the user on resultChan.
WorkerLoginUser(r) ==
    \E fault \in FaultChoices :
        LET res == GetUserByEmail(req[r].user.email, fault)
        IN  /\ WorkerAt(r, {"LoginUser"}, "call")
            /\ Count(fault)
            /\ SendOutcome(r, res.err, res.rows)
            /\ UNCHANGED <<users, users_id_seq, referral_codes, referral_links,
                           now, resp, calls>>

\* Worker of CreateReferralCode: the DELETE, whose error is the outcome, then
\* the INSERT.
WorkerCreateReferralCode(r) ==
    \E fault \in FaultChoices :
        LET res == DeleteReferralCode(req[r].userID, fault)
        IN  /\ WorkerAt(r, {"CreateReferralCode"}, "call")
            /\ Count(fault)
            /\ referral_codes' = res.codes
            /\ IF res.err # "nil"
               THEN SendOutcome(r, res.err, {})
               ELSE req' = [req EXCEPT ![r].pc = "insert"]
            /\ UNCHANGED <<users, users_id_seq, referral_links, now, resp, calls>>

WorkerCreateReferralCodeInsert(r) ==
    \E fault \in FaultChoices :
        LET res == InsertReferralCode(req[r].userID, req[r].code,
                                      req[r].expiresAt, fault)
        IN  /\ WorkerAt(r, {"CreateReferralCode"}, "insert")
            /\ Count(fault)
            /\ referral_codes' = res.codes
            /\ SendOutcome(r, res.err, {})
            /\ UNCHANGED <<users, users_id_seq, referral_links, now, resp, calls>>

\* Worker of DeleteReferralCode.
WorkerDeleteReferralCode(r) ==
    \E fault \in FaultChoices :
        LET res == DeleteReferralCode(req[r].userID, fault)
        IN  /\ WorkerAt(r, {"DeleteReferralCode"}, "call")
            /\ Count(fault)
            /\ referral_codes' = res.codes
            /\ SendOutcome(r, res.err, {})
            /\ UNCHANGED <<users, users_id_seq, referral_links, now, resp, calls>>

\* Worker of GetReferralCodeByEmail: the error on errorChan and return, or the
\* code on resultChan.
WorkerGetReferralCodeByEmail(r) ==
    \E fault \in FaultChoices :
        LET res == GetReferralCodeByEmail(req[r].user.email, fault)
        IN  /\ WorkerAt(r, {"GetReferralCodeByEmail"}, "call")
            /\ Count(fault)
            /\ SendOutcome(r, res.err, res.rows)
            /\ UNCHANGED <<users, users_id_seq, referral_codes, referral_links,
                           now, resp, calls>>

\* Worker of RegisterWithReferralCode with a code: the SELECT, CreateUser and
\* the INSERT of the link; the first error, or nil, is the outcome.
WorkerRegisterWithReferralCode(r) ==
    \E fault \in FaultChoices :
        LET rows == IF fault THEN {} ELSE SelectReferrer(req[r].code)
            err == IF fault THEN "ctx"
                   ELSE IF rows = {} THEN "ErrNoRows" ELSE "nil"
        IN  /\ WorkerAt(r, {"RegisterWithReferralCode"}, "call")
            /\ Count(fault)
            /\ IF err # "nil"
               THEN SendOutcome(r, err, {})
               ELSE req' = [req EXCEPT
                               ![r].pc = "createUser",
                               ![r].referrerID = (CHOOSE c \in rows : TRUE).user_id]
            /\ UNCHANGED <<users, users_id_seq, referral_codes, referral_links,
                           now, resp, calls>>

WorkerRegisterCreateUser(r) ==
    \E fault \in FaultChoices :
        LET res == CreateUser(req[r].user, fault)
        IN  /\ WorkerAt(r, {"RegisterWithReferralCode"}, "createUser")
            /\ Count(fault)
            /\ users' = res.users
            /\ users_id_seq' = res.seq
            /\ IF res.err # "nil"
               THEN SendOutcome(r, res.err, {})
               ELSE req' = [req EXCEPT ![r].pc = "insertLink",
                                       ![r].userID = res.id]
            /\ UNCHANGED <<referral_codes, referral_links, now, resp, calls>>

WorkerRegisterInsertLink(r) ==
    \E fault \in FaultChoices :
        LET res == InsertReferralLink(req[r].referrerID, req[r].userID, fault)
        IN  /\ WorkerAt(r, {"RegisterWithReferralCode"}, "insertLink")
            /\ Count(fault)
            /\ referral_links' = res.links
            /\ SendOutcome(r, res.err, {})
            /\ UNCHANGED <<users, users_id_seq, referral_codes, now, resp, calls>>

\* Worker of GetReferralsByReferrerID: the error on errorChan and return, or
\* the referrals on resultChan.
WorkerGetReferralsByReferrerID(r) ==
    \E fault \in FaultChoices :
        LET res == GetReferralsByReferrerID(req[r].userID, fault)
        IN  /\ WorkerAt(r, {"GetReferralsByReferrerID"}, "call")
            /\ Count(fault)
            /\ SendOutcome(r, res.err, res.rows)
            /\ UNCHANGED <<users, users_id_seq, referral_codes, referral_links,
                           now, resp, calls>>

\* An unbuffered channel hands a value over when the sender is at its send and
\* the receiver is receiving from that channel: the worker returns, the handler
\* holds the value.
Receive(r) ==
    /\ req[r].pc = "send"
    /\ req[r].handler = "recv"
    /\ req[r].chan \in Listens(req[r].op)
    /\ req' = [req EXCEPT ![r].pc = "exit", ![r].handler = "got"]
    /\ UNCHANGED <<users, users_id_seq, referral_codes, referral_links, now,
                   resp, calls, faults>>

\* The handler writes the response for the value it received and returns.
\* LoginUser checks the password and issues the token for a user received on
\* resultChan.
Respond(r) ==
    LET op == req[r].op
        existingUser == CHOOSE u \in req[r].rows : TRUE
        err == IF op = "LoginUser" /\ req[r].chan = "resultChan"
               THEN CheckPasswordHash(req[r].user.password, existingUser.password)
               ELSE req[r].err
        body == IF op = "LoginUser" /\ req[r].chan = "resultChan"
                THEN IF err # "nil"
                     THEN <<"error", "invalid login credentials">>
                     ELSE <<"token", GenerateToken(existingUser.id,
                                                   existingUser.username, now)>>
                ELSE WriteError(ErrorPrefix(op), err)
    IN  /\ req[r].pc = "exit"
        /\ req[r].handler = "got"
        /\ DoneWith(r, IF op = "RegisterWithoutCode"
                       THEN "RegisterWithReferralCode" ELSE op,
                    err, StatusOf(err, OkStatus(op), FailStatus(op)), <<>>, body)
        /\ UNCHANGED <<users, users_id_seq, referral_codes, referral_links, now,
                       calls, faults>>

\* A step of the request in slot r after its worker was started.
Progress(r) ==
    \/ WorkerRegisterUser(r)
    \/ WorkerLoginUser(r)
    \/ WorkerCreateReferralCode(r)
    \/ WorkerCreateReferralCodeInsert(r)
    \/ WorkerDeleteReferralCode(r)
    \/ WorkerGetReferralCodeByEmail(r)
    \/ WorkerRegisterWithReferralCode(r)
    \/ WorkerRegisterCreateUser(r)
    \/ WorkerRegisterInsertLink(r)
    \/ WorkerGetReferralsByReferrerID(r)
    \/ Receive(r)
    \/ Respond(r)

NextChan ==
    \/ \E r \in Reqs, op \in ChanOps, user \in Inputs, userID \in UserIDs :
           Alone(r) /\ StartWorker(r, op, user, userID)
    \/ \E r \in Reqs : WorkerRegisterUser(r)
    \/ \E r \in Reqs : WorkerLoginUser(r)
    \/ \E r \in Reqs : WorkerCreateReferralCode(r)
    \/ \E r \in Reqs : WorkerCreateReferralCodeInsert(r)
    \/ \E r \in Reqs : WorkerDeleteReferralCode(r)
    \/ \E r \in Reqs : WorkerGetReferralCodeByEmail(r)
    \/ \E r \in Reqs : WorkerRegisterWithReferralCode(r)
    \/ \E r \in Reqs : WorkerRegisterCreateUser(r)
    \/ \E r \in Reqs : WorkerRegisterInsertLink(r)
    \/ \E r \in Reqs : WorkerGetReferralsByReferrerID(r)
    \/ \E r \in Reqs : Receive(r)
    \/ \E r \in Reqs : Respond(r)

\* The Go scheduler runs every goroutine that can run: a worker that is not
\* blocked, a send and a receive that meet, a handler that holds its value.
SpecChan ==
    /\ Init
    /\ [][NextChan]_vars
    /\ \A r \in Reqs : WF_vars(Progress(r))

\* ------------------------------------------------------- repeated redemption
\* The fifth specification has a third email, so that one code can be redeemed
\* by two registrations; it serves the registrations with a code and the
\* requests that issue and withdraw codes, concurrently.
RedeemEmails == Emails \cup {"carol@x.com"}
RedeemInputs == [username : Usernames, email : RedeemEmails,
                 password : {Plain(p) : p \in Passwords}]

NextRedeem ==
    \/ \E r \in Reqs, user \in RedeemInputs : RegisterUser(r, user)
    \/ \E r \in Reqs, userID \in UserIDs, expiresAt \in Times :
           HandleCreateReferralCode(r, userID, "REF1", expiresAt)
    \/ \E r \in Reqs : CreateReferralCodeInsert(r)
    \/ \E r \in Reqs, userID \in UserIDs : HandleDeleteReferralCode(r, userID)
    \/ \E r \in Reqs, user \in RedeemInputs :
           HandleRegisterWithReferralCode(r, "REF1", user)
    \/ \E r \in Reqs : RegisterCreateUser(r)
    \/ \E r \in Reqs : RegisterInsertLink(r)
    \/ Tick

SpecRedeem == Init /\ [][NextRedeem]_vars

\* ------------------------------------------------------------------ claims
CodesOf(userID) == {c \in referral_codes : c.user_id = userID}

CodeRow(r) ==
    [user_id |-> req[r].userID, code |-> req[r].code, expires_at |-> req[r].expiresAt]

\* A code is usable iff a row holds it and the row's expiry is in the future.
CodeUsable(code) == \E c \in referral_codes : c.code = code /\ now < c.expires_at

\* Slot r is between the DELETE and the INSERT of a CreateReferralCode whose
\* DELETE removed a code of its owner.
Replacing(r) ==
    /\ req[r].op = "CreateReferralCode"
    /\ req[r].pc = "insert"
    /\ req[r].deleted # {}

\* C1: in every reachable state no two rows of referral_codes have the same
\* owner, whatever the interleaving of the create and delete requests.
C1_AtMostOneCodePerOwner ==
    \A c1, c2 \in referral_codes : c1.user_id = c2.user_id => c1 = c2

\* C2: a read of an owner's code (GetReferralCodeByEmail, or the SELECT of
\* RegisterWithReferralCode on the code being replaced) that runs while a
\* CreateReferralCode is replacing that owner's code finds exactly one code.
C2_ReaderSeesExactlyOneCode ==
    [][\A r \in Reqs, q \in Reqs :
          Replacing(q) =>
              /\ \A u \in users :
                    (/\ u.id = req[q].userID
                     /\ HandleGetReferralCodeByEmail(r, u.email)
                     /\ resp'.err # "ctx")
                    => (resp'.err = "nil" /\ Cardinality(CodesOf(u.id)) = 1)
              /\ \A d \in req[q].deleted, user \in Inputs :
                    (/\ now < d.expires_at
                     /\ HandleRegisterWithReferralCode(r, d.code, user)
                     /\ resp'.err # "ctx")
                    => resp'.err # "ErrNoRows"]_vars

\* C3: an account inserted by RegisterWithReferralCode never exists without a
\* referral link whose referee it is.
C3_NoAccountWithoutLink ==
    \A r \in Reqs :
        (req[r].op = "RegisterWithReferralCode" /\ req[r].userID # 0)
        => \E l \in referral_links : l.referee_id = req[r].userID

\* C4: RegisterWithReferralCode given a code that no row holds, or whose row
\* has expired, ends at its SELECT with an error and status 500, and leaves
\* users, referral_codes and referral_links as they were.
C4_InvalidCodeChangesNothing ==
    [][\A r \in Reqs, code \in CodeStrings, user \in Inputs :
          (HandleRegisterWithReferralCode(r, code, user) /\ ~ CodeUsable(code))
          => /\ resp'.op = "RegisterWithReferralCode"
             /\ resp'.err \in {"ErrNoRows", "ctx"}
             /\ resp'.status = 500
             /\ req'[r] = Idle
             /\ UNCHANGED <<users, users_id_seq, referral_codes, referral_links>>]_vars

C4_Witness ==
    /\ resp.op = "RegisterWithReferralCode"
    /\ resp.err = "ErrNoRows"
    /\ Len(resp.call) = 1
    /\ \E c \in referral_codes : c.code = resp.call[1] /\ c.expires_at <= now

\* C5: RegisterWithReferralCode given a usable code resolves the referrer to
\* the code's owner; its CreateUser, the email being free, inserts exactly one
\* account; its link INSERT adds exactly one link, from that referrer to the
\* new account's id, and the call answers 201 (a statement may instead fail
\* on the context deadline, which the response then reports).
C5_ValidCodeRegistersAndLinks ==
    [][\A r \in Reqs :
          /\ \A code \in CodeStrings, user \in Inputs :
                (HandleRegisterWithReferralCode(r, code, user) /\ CodeUsable(code))
                => \/ resp'.err = "ctx" /\ faults' = faults + 1
                   \/ /\ req'[r].pc = "createUser"
                      /\ \E c \in referral_codes :
                            c.code = code /\ c.user_id = req'[r].referrerID
                      /\ UNCHANGED <<users, referral_codes, referral_links>>
          /\ (RegisterCreateUser(r) /\ \A u \in users : u.email # req[r].user.email)
             => \/ resp'.err = "ctx" /\ faults' = faults + 1
                \/ /\ req'[r].pc = "insertLink"
                   /\ \E u \in users' :
                         /\ u \notin users
                         /\ users' = users \cup {u}
                         /\ u.id = req'[r].userID
                         /\ u.email = req[r].user.email
                         /\ \A v \in users : v.id # u.id
                   /\ UNCHANGED <<referral_codes, referral_links>>
          /\ RegisterInsertLink(r)
             => \/ resp'.err = "ctx" /\ faults' = faults + 1
                \/ /\ resp'.err = "nil"
                   /\ resp'.status = 201
                   /\ LET l == [referrer_id |-> req[r].referrerID,
                                referee_id |-> req[r].userID]
                      IN  /\ l \notin referral_links
                          /\ referral_links' = referral_links \cup {l}
                          /\ \A k \in referral_links : k.referee_id # l.referee_id
                          /\ \E u \in users : u.id = l.referee_id
                          /\ \E u \in users : u.id = l.referrer_id
                   /\ UNCHANGED <<users, referral_codes>>]_vars

C5_Witness ==
    /\ resp.op = "RegisterWithReferralCode"
    /\ resp.status = 201
    /\ Len(resp.call) = 1
    /\ \E l \in referral_links, c \in referral_codes, u \in users :
          /\ c.code = resp.call[1]
          /\ l.referrer_id = c.user_id
          /\ l.referee_id = u.id
          /\ u.id = users_id_seq

\* The plaintext an account was registered with: the token a digest was
\* computed from, or the stored string itself.
SuppliedPlaintext(u) == Plain(u.password[Len(u.password)])

\* C6: every stored password is the hash of the plaintext supplied at
\* registration: the check LoginUser makes with that plaintext succeeds.
C6_StoredPasswordVerifies ==
    \A u \in users : CheckPasswordHash(SuppliedPlaintext(u), u.password) = "nil"

\* C7: the INSERT of a CreateReferralCode whose code string is held by a row
\* of another owner fails with the unique violation (or on the context
\* deadline), answers 500 and leaves referral_codes as it was; when no row
\* holds the string and the owner exists it succeeds, adding only its row.
C7_DuplicateCodeRejected ==
    [][\A r \in Reqs :
          CreateReferralCodeInsert(r)
          => IF \E c \in referral_codes :
                    c.code = req[r].code /\ c.user_id # req[r].userID
             THEN /\ resp'.err \in {"unique_violation", "ctx"}
                  /\ resp'.status = 500
                  /\ referral_codes' = referral_codes
             ELSE (/\ \A c \in referral_codes : c.code # req[r].code
                   /\ \E u \in users : u.id = req[r].userID)
                  => \/ resp'.err = "ctx" /\ referral_codes' = referral_codes
                     \/ /\ resp'.err = "nil"
                        /\ resp'.status = 201
                        /\ referral_codes' = referral_codes \cup {CodeRow(r)}]_vars

\* One owner's CreateReferralCode has just succeeded with a string that
\* another owner's CreateReferralCode, still before its INSERT, asked for too.
C7_Witness ==
    \E r \in Reqs, c \in referral_codes :
        /\ req[r].op = "CreateReferralCode"
        /\ req[r].pc = "insert"
        /\ resp.op = "CreateReferralCode"
        /\ resp.err = "nil"
        /\ resp.call[2] = req[r].code
        /\ resp.call[1] # req[r].userID
        /\ c.code = req[r].code
        /\ c.user_id = resp.call[1]
        /\ \E u \in users : u.id = req[r].userID

\* C8: in every reachable state no two rows of referral_codes hold the same
\* code string.
C8_CodeStringsUnique ==
    \A c1, c2 \in referral_codes : c1.code = c2.code => c1 = c2

\* A CreateReferralCode was refused for its string while another owner's row
\* holds it.
C8_Witness ==
    /\ resp.op = "CreateReferralCode"
    /\ resp.err = "unique_violation"
    /\ \E c \in referral_codes : c.code = resp.call[2] /\ c.user_id # resp.call[1]
    /\ \E c \in referral_codes : c.code # resp.call[2]

\* C9: when CreateReferralCode fails at its INSERT, the code its DELETE found
\* for the owner is still in referral_codes.
C9_FailedCreateKeepsOldCode ==
    [][\A r \in Reqs :
          (CreateReferralCodeInsert(r) /\ resp'.err # "nil")
          => req[r].deleted \subseteq referral_codes']_vars

\* C10: when a CreateReferralCode of an owner who had a code succeeds with a
\* new string, the owner has exactly one code afterwards, the new one, and no
\* row holds the old string (a registration with it finds no row).
C10_ReplaceLeavesOnlyNewCode ==
    [][\A r \in Reqs :
          (/\ CreateReferralCodeInsert(r)
           /\ resp'.err = "nil"
           /\ req[r].deleted # {}
           /\ \A d \in req[r].deleted : d.code # req[r].code)
          => /\ {c \in referral_codes' : c.user_id = req[r].userID} = {CodeRow(r)}
             /\ \A d \in req[r].deleted :
                   \A c \in referral_codes' : c.code # d.code]_vars

\* C11: when the context deadline fires at a statement of CreateReferralCode or
\* of DB.RegisterWithReferralCode, the store is as it was before the call or
\* as after its completion: the code the call deleted is still stored, and the
\* account the call inserted is not stored without its link.
C11_TimeoutLeavesNoHalfAppliedState ==
    [][\A r \in Reqs :
          /\ (CreateReferralCodeInsert(r) /\ resp'.err = "ctx")
             => req[r].deleted \subseteq referral_codes'
          /\ (RegisterInsertLink(r) /\ resp'.err = "ctx")
             => \A u \in users' : u.id # req[r].userID]_vars

\* C12: a LoginUser refused for an unknown email and one refused by the
\* password check (wrong password or malformed stored digest) both answer 401
\* with the body "invalid login credentials".
C12_LoginDenialsIndistinguishable ==
    [][\A r \in Reqs, email \in Emails, p \in Passwords :
          (LoginUser(r, email, Plain(p)) /\ resp'.err \notin {"nil", "ctx"})
          => /\ resp'.status = 401
             /\ resp'.body = <<"error", "invalid login credentials">>]_vars

\* C18: no error response carries the text of the internal error (of the
\* store, the hasher or the token library) that caused it.
C18_NoInternalErrorTextInResponse ==
    resp.err # "nil" => \A i \in DOMAIN resp.body : resp.body[i] # resp.err

\* C19: RegisterWithReferralCode answers a code string that no row holds and a
\* code whose row has expired with the same response: status 500 and the one
\* body of the failed lookup.
C19_AbsentAndExpiredCodeSameResponse ==
    [][\A r \in Reqs, code \in CodeStrings, user \in Inputs :
          (/\ HandleRegisterWithReferralCode(r, code, user)
           /\ resp'.err # "ctx"
           /\ \/ \A c \in referral_codes : c.code # code
              \/ \E c \in referral_codes : c.code = code /\ c.expires_at <= now)
          => /\ resp'.status = 500
             /\ resp'.body = <<"error", ErrorPrefix("RegisterWithReferralCode"),
                               "ErrNoRows">>]_vars

\* A registration was refused for a string no row holds while the only stored
\* code has expired: the state offers both cases.
C19_Witness ==
    /\ resp.op = "RegisterWithReferralCode"
    /\ resp.status = 500
    /\ resp.err = "ErrNoRows"
    /\ \A c \in referral_codes : c.code # resp.call[1] /\ c.expires_at <= now
    /\ referral_codes # {}

\* C20: the lookup of RegisterWithReferralCode fails with one error when no
\* row has the code string and with a different error when a row has it but
\* its expiry is not in the future.
C20_NotFoundAndExpiredDistinct ==
    [][\A r \in Reqs, code \in CodeStrings, user \in Inputs :
          (HandleRegisterWithReferralCode(r, code, user) /\ resp'.err # "ctx")
          => /\ (\A c \in referral_codes : c.code # code)
                => resp'.err = "ErrNoRows"
             /\ (\E c \in referral_codes : c.code = code /\ c.expires_at <= now)
                => resp'.err \notin {"nil", "ErrNoRows"}]_vars

\* The request of slot r was refused by the middleware in this step: 401, the
\* slot free again, no table touched, no handler entered.
Denied(r) ==
    /\ resp'.op = "TokenAuthMiddleware"
    /\ resp'.status = 401
    /\ req'[r] = Idle
    /\ UNCHANGED <<users, users_id_seq, referral_codes, referral_links>>

\* The step serves, in slot r, a request to a route under /p that came with
\* the given header.
ProtectedStep(r, header) ==
    /\ Free(r)
    /\ calls' # calls
    /\ \/ \E userID \in UserIDs :
             ProtectedCreateReferralCode(r, header, userID, "REF1", MaxTime)
       \/ \E userID \in UserIDs : ProtectedDeleteReferralCode(r, header, userID)
       \/ \E email \in Emails : ProtectedGetReferralCodeByEmail(r, header, email)
       \/ \E referrerID \in UserIDs :
             ProtectedGetReferralsByReferrerID(r, header, referrerID)

\* C13: a request to a route under /p whose Authorization header is missing,
\* shorter than "Bearer ", or holds a token ValidateToken does not accept is
\* answered 401 and none of CreateReferralCode, DeleteReferralCode,
\* GetReferralCodeByEmail, GetReferralsByReferrerID runs for it: a step that
\* is not such a refusal serves no request with such a header.
C13_NoStoreOperationWithoutAcceptedToken ==
    [][\A r \in Reqs :
          \/ Denied(r)
          \/ \A header \in Headers :
                (\/ Len(header) < 2
                 \/ ValidateToken(header[2], now).err # NoError)
                => ~ ProtectedStep(r, header)]_vars

\* A request was refused for its token while a code is stored, which an
\* earlier request with an accepted token created.
C13_Witness ==
    /\ resp.op = "TokenAuthMiddleware"
    /\ resp.status = 401
    /\ resp.body = <<"Nedeistvitelnyi token">>
    /\ referral_codes # {}

\* C14: the token LoginUser has just issued validates, at the time of issue
\* and under the same secret, to the username of the account it was issued
\* for, without error; so does a token generated now for any stored account.
C14_IssueThenValidateReturnsUsername ==
    /\ (resp.op = "LoginUser" /\ resp.err = "nil")
       => /\ ValidateToken(resp.body[2], resp.body[2].iat).err = NoError
          /\ \E u \in users :
                /\ u.id = resp.body[2].user_id
                /\ ValidateToken(resp.body[2], resp.body[2].iat).username
                   = u.username
    /\ \A u \in users :
          ValidateToken(GenerateToken(u.id, u.username, now), now)
          = [username |-> u.username, err |-> NoError]

\* LoginUser has issued a token to the second account, bob.
C14_Witness ==
    /\ resp.op = "LoginUser"
    /\ resp.err = "nil"
    /\ resp.body[2].username = "bob"
    /\ resp.body[2].user_id = 2

\* C15: ValidateToken rejects a token signed by GenerateToken's method and
\* secret at every instant now >= expiresAt, the instant now = expiresAt
\* included.
C15_RejectedFromExpiryOn ==
    \A tok \in Tokens :
        (/\ tok # Malformed
         /\ tok.alg = "HS256"
         /\ tok.key = JWTSecret
         /\ now >= tok.exp)
        => ValidateToken(tok, now).err # NoError

\* C16: ValidateToken fails an expired token with its token-expired error, a
\* token whose signature does not verify with its invalid-signature error and
\* a string that is no token with its token-parse error.
C16_FailureCausesDistinct ==
    \A tok \in Tokens :
        /\ tok = Malformed
           => ValidateToken(tok, now).err[1] = "oshibka razbora tokena: "
        /\ (/\ tok # Malformed
            /\ tok.alg = "HS256"
            /\ tok.key # JWTSecret
            /\ now <= tok.exp)
           => ValidateToken(tok, now).err = <<"nedeistvitelnaya podpis tokena">>
        /\ (/\ tok # Malformed
            /\ tok.alg = "HS256"
            /\ tok.key = JWTSecret
            /\ now > tok.exp)
           => ValidateToken(tok, now).err = <<"token istek">>

\* C17: ValidateToken rejects every token that declares a signing method
\* other than HS256, whichever key signed it.
C17_OtherAlgorithmRejected ==
    \A tok \in Tokens :
        (tok # Malformed /\ tok.alg # "HS256")
        => ValidateToken(tok, now).err # NoError

\* The step accepts a request into slot r and no statement of it fails on the
\* context deadline.
Serves(r) ==
    /\ Free(r)
    /\ calls' # calls
    /\ faults' = faults

\* C21: RegisterWithReferralCode goes on to create the account iff a row holds
\* the code and its expiry is strictly after now; with expires_at = now or
\* expires_at < now, or no row, it is refused at the lookup.
C21_UsableIffExpiryStrictlyInFuture ==
    [][\A r \in Reqs :
          Serves(r)
          => \A code \in CodeStrings, user \in Inputs :
                HandleRegisterWithReferralCode(r, code, user)
                => IF \E c \in referral_codes : c.code = code /\ c.expires_at > now
                   THEN req'[r].pc = "createUser" /\ resp' = resp
                   ELSE /\ req'[r] = Idle
                        /\ resp'.err = "ErrNoRows"
                        /\ resp'.status = 500]_vars

\* A registration was refused for a code whose expiry is exactly now.
C21_Witness ==
    /\ resp.op = "RegisterWithReferralCode"
    /\ resp.err = "ErrNoRows"
    /\ \E c \in referral_codes : c.code = resp.call[1] /\ c.expires_at = now

\* C22: GetReferralCodeByEmail succeeds only when the owner has a code whose
\* expiry is after now; for an owner with no code, or only an expired one, it
\* answers with the not-found error.
C22_LookupReturnsOnlyActiveCode ==
    [][\A r \in Reqs :
          Serves(r)
          => \A email \in Emails :
                HandleGetReferralCodeByEmail(r, email)
                => IF \E c \in CodesByEmail(email) : c.expires_at > now
                   THEN resp'.err = "nil"
                   ELSE resp'.err = "not_found" /\ resp'.status = 404]_vars

\* C23: DeleteReferralCode(owner) answers 204 whether or not the owner has a
\* code, leaves no row of the owner, and leaves the rows of all other owners,
\* the accounts and the referral links as they were.
C23_DeleteRemovesOnlyOwnersCode ==
    [][\A r \in Reqs :
          Serves(r)
          => \A userID \in UserIDs :
                HandleDeleteReferralCode(r, userID)
                => /\ resp'.err = "nil"
                   /\ resp'.status = 204
                   /\ referral_codes'
                      = {c \in referral_codes : c.user_id # userID}
                   /\ UNCHANGED <<users, users_id_seq, referral_links>>]_vars

\* A DeleteReferralCode has succeeded and another owner's code is still
\* stored, next to an account that holds none.
C23_Witness ==
    /\ resp.op = "DeleteReferralCode"
    /\ resp.status = 204
    /\ referral_codes # {}
    /\ \E u \in users : CodesOf(u.id) = {}
    /\ \A r \in Reqs : Free(r)

\* C24: no step removes or changes a referral link: every link stored before
\* a step is stored after it.
C24_LinksOnlyGrow ==
    [][referral_links \subseteq referral_links']_vars

\* A link is stored whose referrer's code has since been deleted.
C24_Witness ==
    /\ resp.op = "DeleteReferralCode"
    /\ resp.status = 204
    /\ \E l \in referral_links : CodesOf(l.referrer_id) = {}

\* The step refuses a registration: error of the UNIQUE index, status 500, the
\* request over, accounts and links as they were.
RefusedAsDuplicate(r) ==
    /\ resp'.err = "unique_violation"
    /\ resp'.status = 500
    /\ req'[r] = Idle
    /\ UNCHANGED <<users, referral_links>>

\* C25: no two accounts share an email after any step, and a registration
\* (RegisterUser, RegisterWithReferralCode without or with a code) whose email
\* an account already has when its INSERT runs fails, creates no account and
\* no link; CreateUser returns id 0 for it.
C25_EmailsUnique ==
    [][/\ \A u1, u2 \in users' : u1.email = u2.email => u1 = u2
       /\ \A r \in Reqs :
             faults' = faults
             => /\ (/\ RegisterCreateUser(r)
                    /\ \E u \in users : u.email = req[r].user.email)
                   => /\ RefusedAsDuplicate(r)
                      /\ CreateUser(req[r].user, FALSE).id = 0
                /\ (Free(r) /\ calls' # calls)
                   => \A user \in Inputs :
                         (/\ \E u \in users : u.email = user.email
                          /\ \/ RegisterUser(r, user)
                             \/ RegisterWithoutCode(r, user))
                         => RefusedAsDuplicate(r)]_vars

\* A registration with a referral code was refused for its email while another
\* registration with a code, running at the same time, has inserted its account
\* and not yet its link.
C25_Witness ==
    /\ resp.op = "RegisterWithReferralCode"
    /\ resp.err = "unique_violation"
    /\ Len(resp.call) = 1
    /\ referral_links = {}
    /\ \E q \in Reqs :
          /\ req[q].op = "RegisterWithReferralCode"
          /\ req[q].pc = "insertLink"

\* C26: GetReferralsByReferrerID(id) answers 200 with exactly the accounts that
\* are the referee of a link whose referrer is id; no other account, and none
\* that is not stored, is in the answer.
C26_ReferralsAreExactlyTheReferees ==
    [][\A r \in Reqs :
          Serves(r)
          => \A referrerID \in UserIDs :
                HandleGetReferralsByReferrerID(r, referrerID)
                => /\ resp'.err = "nil"
                   /\ resp'.status = 200
                   /\ resp'.call[1] = referrerID
                   /\ resp'.call[2]
                      = {l.referee_id :
                            l \in {k \in referral_links : k.referrer_id = referrerID}}
                   /\ \A id \in resp'.call[2] : \E u \in users : u.id = id]_vars

\* alice (id 1) issued a code, bob (id 2) registered with it, and the referrals
\* of alice were answered as exactly bob, those of bob as none.
C26_Witness ==
    /\ resp.op = "GetReferralsByReferrerID"
    /\ resp.call = <<1, {2}>>
    /\ \E u \in users : u.id = 1 /\ u.email = "alice@x.com"
    /\ \E u \in users : u.id = 2 /\ u.email = "bob@x.com"
    /\ GetReferralsByReferrerID(2, FALSE).rows = {}

\* The code slot r is redeeming is still stored for the referrer the lookup
\* found, and unexpired.
RedeemedCodeValid(r) ==
    \E c \in referral_codes :
        /\ c.code = req[r].code
        /\ c.user_id = req[r].referrerID
        /\ c.expires_at > now

\* C30: RegisterWithReferralCode inserts its account and its link only while
\* the code it looked up is still valid: when the code has been deleted,
\* replaced or has expired since the lookup, neither INSERT takes effect.
C30_LinkOnlyWhileCodeValid ==
    [][\A r \in Reqs :
          /\ (RegisterCreateUser(r) /\ users' # users) => RedeemedCodeValid(r)
          /\ (RegisterInsertLink(r) /\ referral_links' # referral_links)
             => RedeemedCodeValid(r)]_vars

\* C27: a CreateReferralCode whose expiry is before now when its INSERT runs
\* returns an error and stores no row for that code.
C27_PastExpiryRejected ==
    [][\A r \in Reqs :
          (CreateReferralCodeInsert(r) /\ req[r].expiresAt < now)
          => /\ resp'.err # "nil"
             /\ CodeRow(r) \notin referral_codes']_vars

C29_VerifiesOwnHashOnly ==
    \A u \in users, p, q \in SeqPasswords, salt \in Salts :
        u.password = HashPassword(q, salt)
        => /\ CheckPasswordHash(q, u.password) = "nil"
           /\ p # q => CheckPasswordHash(p, u.password) # "nil"

\* The accepted token of the header names a stored account: the id and the
\* username LoginUser puts into the token it issues for that account.
TokenAccount(header) ==
    {u \in users : u.id = header[2].user_id /\ u.username = header[2].username}

\* C31: a create or delete of a referral code on the protected routes, served
\* with an accepted token that names a stored account, adds and removes only
\* rows of referral_codes owned by that account.
C31_OnlyTokenHoldersCodeChanges ==
    [][\A r \in Reqs :
          (Free(r) /\ calls' # calls /\ referral_codes' # referral_codes)
          => \A header \in Headers :
                (/\ TokenAuthMiddleware(header, now).ok
                 /\ TokenAccount(header) # {}
                 /\ \E userID \in UserIDs :
                       \/ ProtectedCreateReferralCode(r, header, userID,
                                                      "REF1", MaxTime)
                       \/ ProtectedDeleteReferralCode(r, header, userID))
                => \A c \in (referral_codes \ referral_codes')
                             \cup (referral_codes' \ referral_codes) :
                      \E u \in TokenAccount(header) : c.user_id = u.id]_vars

\* C32: in every handler the worker sends one value, on one channel, and the
\* handler receives it. A worker has returned exactly when its handler holds
\* the value; a worker blocked on its send stays there until the handler takes
\* the value and never sends again; a response is written only by a handler
\* that holds its worker's value, and that handler returns with the worker
\* gone; and every started request comes to its response: no handler and no
\* worker blocks forever.
C32_OneSendOneReceiveOneResponse ==
    /\ [](\A r \in Reqs :
             ~Free(r) => (req[r].pc = "exit" <=> req[r].handler = "got"))
    /\ [][\A r \in Reqs :
             /\ (~Free(r) /\ req[r].pc = "send")
                => /\ req'[r].pc \in {"send", "exit"}
                   /\ req'[r].chan = req[r].chan
                   /\ req'[r].err = req[r].err
             /\ (~Free(r) /\ req[r].pc = "exit")
                => req'[r] \in {req[r], Idle}
             /\ (~Free(r) /\ Free(r)')
                => /\ req[r].pc = "exit"
                   /\ req[r].handler = "got"
                   /\ resp'.status # 0
             /\ (~Free(r) /\ ~Free(r)') => resp' = resp]_vars
    /\ \A r \in Reqs : ~Free(r) ~> Free(r)

\* A worker is blocked on its send to errorChan while its handler waits in the
\* select.
C32_Witness ==
    \E r \in Reqs :
        /\ req[r].pc = "send"
        /\ req[r].chan = "errorChan"
        /\ req[r].handler = "recv"

\* C33: every account is the referee of at most one link, and no link has the
\* same account as referrer and referee.
C33_OneLinkPerRefereeNoSelfLink ==
    /\ \A l1, l2 \in referral_links : l1.referee_id = l2.referee_id => l1 = l2
    /\ \A l \in referral_links : l.referrer_id # l.referee_id

\* Two accounts have registered with the code of the same referrer.
C33_Witness ==
    \E l1, l2 \in referral_links :
        /\ l1 # l2
        /\ l1.referrer_id = l2.referrer_id

\* C34: no statement of a RegisterWithReferralCode changes referral_codes, and
\* a registration whose lookup runs while a row holds the code unexpired goes
\* on to create its account, whatever links the code has already produced.
C34_RedeemingDoesNotConsume ==
    [][\A r \in Reqs :
          /\ (RegisterCreateUser(r) \/ RegisterInsertLink(r))
             => UNCHANGED referral_codes
          /\ Serves(r)
             => \A user \in RedeemInputs :
                   HandleRegisterWithReferralCode(r, "REF1", user)
                   => /\ UNCHANGED referral_codes
                      /\ CodeUsable("REF1") => req'[r].pc = "createUser"]_vars

\* The code has been redeemed by two registrations and is still stored.
C34_Witness ==
    /\ resp.op = "RegisterWithReferralCode"
    /\ resp.err = "nil"
    /\ Cardinality(referral_links) = 2
    /\ \E c \in referral_codes :
          \A l \in referral_links : l.referrer_id = c.user_id

\* C35: in every state the owner of every referral code and both ends of
\* every referral link are ids of stored accounts; and a CreateReferralCode
\* for a user id no account has changes nothing with its DELETE, fails at its
\* INSERT with 500 and stores no row.
C35_OwnersAndLinkEndsExist ==
    /\ [](/\ \A c \in referral_codes : \E u \in users : u.id = c.user_id
          /\ \A l \in referral_links :
                /\ \E u \in users : u.id = l.referrer_id
                /\ \E u \in users : u.id = l.referee_id)
    /\ [][\A r \in Reqs :
             /\ (/\ Free(r)
                 /\ req'[r].op = "CreateReferralCode"
                 /\ \A u \in users : u.id # req'[r].userID)
                => UNCHANGED referral_codes
             /\ (/\ CreateReferralCodeInsert(r)
                 /\ \A u \in users : u.id # req[r].userID)
                => /\ resp'.err # "nil"
                   /\ resp'.status = 500
                   /\ req'[r] = Idle
                   /\ UNCHANGED referral_codes]_vars

\* A CreateReferralCode was refused on the foreign key of the owner.
C35_Witness ==
    /\ resp.op = "CreateReferralCode"
    /\ resp.err = "fk_violation"
    /\ resp.status = 500
    /\ \A u \in users : u.id # resp.call[1]

\* C36: the INSERT of a CreateReferralCode fails on the unique index only when
\* a row of another owner holds the code string; a CreateReferralCode whose
\* DELETE removed the owner's row with the same string succeeds, and leaves
\* the owner with exactly the row issued, as issuing it once does.
C36_DuplicateOnlyForAnotherOwner ==
    [][\A r \in Reqs :
          CreateReferralCodeInsert(r)
          => /\ resp'.err = "unique_violation"
                => \E c \in referral_codes :
                      c.code = req[r].code /\ c.user_id # req[r].userID
             /\ (/\ faults' = faults
                 /\ \E d \in req[r].deleted : d.code = req[r].code)
                => /\ resp'.err = "nil"
                   /\ {c \in referral_codes' : c.user_id = req[r].userID}
                        = {CodeRow(r)}]_vars

====
